---- MODULE Spec2Model ----
(***************************************************************************)
(* Model of the Bouabid/Vu 2026 conversion scripts of howe-lab-to-nwb:     *)
(*   convert_all_dual_wavelength_sessions  (the batch driver)              *)
(*   dual_wavelength_session_to_nwb        (two channels, one file)        *)
(*   single_wavelength_session_to_nwb      (one channel's assembly)        *)
(* Strings that the code transforms (subject ids, directory names, file    *)
(* names) are sequences of one-character strings, so that str.replace and  *)
(* the f-string concatenations are computed and name clashes can happen.   *)
(* Python's None is the record None; an optional value v is Some(v).       *)
(***************************************************************************)
EXTENDS Integers, Sequences, FiniteSets, TLC

VARIABLES
    pc,        \* where the process is: idle (started, nothing called yet), group,
               \* dual_first, dual_second, inspect, ended (the top-level call is over)
    run,       \* the current or last batch call: arguments, remaining groups, status
    prev,      \* the batch call before it, kept when it completed with overwrite=False
    cur,       \* the session group the batch loop is working on
    dual,      \* the current or last dual_wavelength_session_to_nwb call
    mat,       \* content of the processed-data .mat file the call reads
    last,      \* the latest single_wavelength_session_to_nwb call and what it built
    nwbfile,   \* the in-memory NWBFile handle held by the caller
    files,     \* output folder: written .nwb files, path -> content
    reports,   \* output folder: saved inspector reports, path -> content
    error,     \* the exception that ended the latest top-level call ("none" if none)
    log,       \* what the latest top-level call has done so far
    metadata   \* the metadata structure a single-wavelength call is assembling

vars == <<pc, run, prev, cur, dual, mat, last, nwbfile, files, reports, error, log, metadata>>

\* Largest one-based frame index a processed-data index field holds.
MaxIdx == 2

None == [none |-> TRUE]
Some(v) == [none |-> FALSE, val |-> v]

---------------------------------------------------------------------------
(* The session table (sheet "Sessions"), sheet "Mice", and the data files *)

\* One row per session; listed out of key order, groupby sorts the groups.
Sessions ==
    << [Mouse |-> <<"D">>, ExpDir |-> <<"d","1">>, wl |-> <<600, 570>>,
        idx |-> <<"ACh_idx", "DA_idx">>, behav |-> <<"behav_ACh", "behav_DA">>],
       [Mouse |-> <<"A","1">>, ExpDir |-> <<"d","1">>, wl |-> <<405, 570>>,
        idx |-> <<"ACh_idx", "DA_idx">>, behav |-> <<"behav_ACh", "behav_DA">>],
       [Mouse |-> <<"B">>, ExpDir |-> <<"d","1">>, wl |-> <<470, 570>>,
        idx |-> <<"ACh_idx", "DA_idx">>, behav |-> <<"behav_ACh", "behav_DA">>],
       [Mouse |-> <<"A","-","1">>, ExpDir |-> <<"d","1">>, wl |-> <<470, 570>>,
        idx |-> <<"ACh_idx", "DA_idx">>, behav |-> <<"behav_ACh", "behav_DA">>],
       [Mouse |-> <<"C">>, ExpDir |-> <<"d","1">>, wl |-> <<415, 600>>,
        idx |-> <<"ACh_idx", "DA_idx">>, behav |-> <<"behav_ACh", "behav_DA">>],
       [Mouse |-> <<"A","1">>, ExpDir |-> <<"d","1">>, wl |-> <<470, 570>>,
        idx |-> <<"ACh_idx", "DA_idx">>, behav |-> <<"behav_ACh", "behav_DA">>] >>

\* Subjects of sheet "Mice".
Mice == { <<"A","-","1">>, <<"A","1">>, <<"C">>, <<"D">> }

\* Subject identifiers a caller may request; <<"Z">> is in no sheet.
SubjectPool == { <<"A","-","1">>, <<"A","1">>, <<"B">>, <<"C">>, <<"D">>, <<"Z">> }

\* The index fields of a session's processed-data file: one-based [start, end].
ProcessedData(row) ==
    [f \in {"ACh_idx", "DA_idx"} |-> IF f = "ACh_idx" THEN <<1, 3>> ELSE <<2, 3>>]

\* Every content a processed-data file's two index fields can have.
IndexPairs == (1..MaxIdx) \X (1..MaxIdx)

\* Excitation wavelengths a caller may pass; 600 is not a key of the lookup.
Wavelengths == {470, 405, 415, 570, 600}

---------------------------------------------------------------------------
(* Strings and order                                                      *)

\* str.replace("-", "")
strip_hyphens(s) == SelectSeq(s, LAMBDA c : c # "-")

\* Code point order of the characters the tables use.
Ord(c) ==
    CASE c = "-" -> 45 [] c = "1" -> 49 [] c = "2" -> 50
      [] c = "A" -> 65 [] c = "B" -> 66 [] c = "C" -> 67 [] c = "D" -> 68
      [] c = "E" -> 69 [] c = "Z" -> 90 [] c = "_" -> 95 [] c = "d" -> 100
      [] OTHER -> 127

RECURSIVE StrLess(_, _)
StrLess(a, b) ==
    IF b = <<>> THEN FALSE
    ELSE IF a = <<>> THEN TRUE
    ELSE IF Ord(Head(a)) # Ord(Head(b)) THEN Ord(Head(a)) < Ord(Head(b))
    ELSE StrLess(Tail(a), Tail(b))

\* Order of the group keys (Mouse, Experiment Directory).
KeyLess(k, l) == StrLess(k[1], l[1]) \/ (k[1] = l[1] /\ StrLess(k[2], l[2]))

RECURSIVE SortKeys(_)
SortKeys(S) ==
    IF S = {} THEN <<>>
    ELSE LET m == CHOOSE k \in S : \A l \in S \ {k} : KeyLess(k, l)
         IN  <<m>> \o SortKeys(S \ {m})

---------------------------------------------------------------------------
(* single_wavelength_session_to_nwb                                       *)

\* list(np.arange(start, stop)): start, start+1, ..., stop-1
arange(start, stop) ==
    [i \in 1..(IF stop > start THEN stop - start ELSE 0) |-> start + i - 1]

\* Mutant: the one-based start index is used as it is.
single_frame_indices_one_based(processed_data, index_field) ==
    arange(processed_data[index_field][1], processed_data[index_field][2])

\* The frame window the single-wavelength assembler derives from the struct.
single_frame_indices(processed_data, index_field) ==
    arange(processed_data[index_field][1] - 1, processed_data[index_field][2])

\* The frame window placed in the Imaging stream's source data: the window
\* is read from the index field whatever the caller passed as frame_indices.
resolved_frame_indices(a, processed_data) ==
    single_frame_indices(processed_data, a.index_field)

StreamNames(a) ==
    {"Imaging", "FiberPhotometry", "Segmentation"}
        \cup (IF a.behavior_field.none THEN {} ELSE {"Behavior"})

source_data(a, processed_data) ==
    [s \in StreamNames(a) |->
        CASE s = "Imaging" ->
               [file_path |-> a.raw_imaging_file_path,
                frame_indices |-> resolved_frame_indices(a, processed_data)]
          [] s = "FiberPhotometry" ->
               [data_field |-> a.fiber_photometry_field,
                ttl_stream_name |-> a.ttl_stream_name]
          [] s = "Segmentation" -> [data_field |-> a.fiber_photometry_field]
          [] s = "Behavior" -> [data_field |-> a.behavior_field.val]]

conversion_options(a) ==
    [s \in StreamNames(a) |->
        IF s = "Imaging"
        THEN [stub_test |-> a.stub_test, photon_series_type |-> "OnePhotonSeries"]
        ELSE [stub_test |-> a.stub_test]]

\* Mutant: 415 nm is filed under Green.
excitation_wavelength_to_photon_series_name_415_green ==
    (470 :> "Green") @@ (405 :> "GreenIsosbestic")
        @@ (415 :> "Green") @@ (570 :> "Red")

excitation_wavelength_to_photon_series_name ==
    (470 :> "Green") @@ (405 :> "GreenIsosbestic")
        @@ (415 :> "GreenIsosbestic") @@ (570 :> "Red")

\* Mutant: an unknown wavelength falls back to Green (dict.get with a default).
name_suffix_with_default(wl) ==
    IF wl \in {470, 405, 415, 570}
    THEN Some(IF wl = 470 THEN "Green" ELSE IF wl = 570 THEN "Red" ELSE "GreenIsosbestic")
    ELSE Some("Green")

\* The lookup of the series-name suffix; None stands for the KeyError.
name_suffix(wl) ==
    IF wl \in DOMAIN excitation_wavelength_to_photon_series_name
    THEN Some(excitation_wavelength_to_photon_series_name[wl])
    ELSE None

fiber_photometry_response_series_name(suffix) ==
    <<"FiberPhotometryResponseSeries", suffix>>

one_photon_series_name(suffix) == <<"OnePhotonSeries", suffix>>

\* What one call adds to a handle.
ChannelEntry(a, processed_data) ==
    [source_data |-> source_data(a, processed_data),
     conversion_options |-> conversion_options(a),
     fiber_photometry_response_series_name |->
         fiber_photometry_response_series_name(name_suffix(a.wl).val),
     one_photon_series_name |-> one_photon_series_name(name_suffix(a.wl).val)]

\* The whole call. err: the exception raised ("none" if the call returns);
\* handle: the handle as the call leaves it; created/extended: whether
\* create_nwbfile / add_to_nwbfile ran; written: the path written, if any;
\* ret: the returned value.
single_wavelength_session_to_nwb(a, processed_data) ==
    IF name_suffix(a.wl).none
    THEN [err |-> "KeyError",
          source_data |-> source_data(a, processed_data),
          conversion_options |-> conversion_options(a),
          suffix |-> None, handle |-> a.nwbfile,
          created |-> FALSE, extended |-> FALSE, written |-> None, ret |-> None]
    ELSE LET entry == ChannelEntry(a, processed_data)
             h == IF a.nwbfile.none THEN <<entry>> ELSE Append(a.nwbfile.val, entry)
         IN  [err |-> "none",
              source_data |-> entry.source_data,
              conversion_options |-> entry.conversion_options,
              suffix |-> name_suffix(a.wl), handle |-> Some(h),
              created |-> a.nwbfile.none, extended |-> ~a.nwbfile.none,
              written |-> a.nwbfile_path,
              ret |-> IF a.nwbfile_path.none THEN Some(h) ELSE None]

\* What configure_and_write_nwbfile puts on disk for a handle: per channel,
\* its streams, the stub flags they were converted with and its series names.
NwbContent(h) ==
    [i \in 1..Len(h) |->
        [streams |-> DOMAIN h[i].source_data,
         stub |-> {h[i].conversion_options[s].stub_test :
                      s \in DOMAIN h[i].conversion_options},
         series |-> h[i].one_photon_series_name]]

WriteFile(fs, path, content) ==
    [p \in DOMAIN fs \cup {path} |-> IF p = path THEN content ELSE fs[p]]

---------------------------------------------------------------------------
(* State of the calls                                                     *)

NoRun == [status |-> "none"]
NoPrev == [kept |-> FALSE]
NoGroup == [key |-> <<>>]
NoDual == [state |-> "none"]
NoMat == [f \in {} |-> <<>>]
NoCall == [channel |-> -1]
NoMetadata == [stage |-> "none"]
EmptyLog ==
    [lookups |-> 0, conversions |-> 0, skipped |-> 0, writes |-> <<>>, reports |-> <<>>]

Init ==
    /\ pc = "idle"
    /\ run = NoRun
    /\ prev = NoPrev
    /\ cur = NoGroup
    /\ dual = NoDual
    /\ mat = NoMat
    /\ last = NoCall
    /\ nwbfile = None
    /\ files = [p \in {} |-> <<>>]
    /\ reports = [p \in {} |-> <<>>]
    /\ error = "none"
    /\ log = EmptyLog
    /\ metadata = NoMetadata

InBatch == run.status = "running"

---------------------------------------------------------------------------
(* dual_wavelength_session_to_nwb                                         *)

\* The frame window the dual-wavelength assembler derives from the struct.
dual_frame_indices(processed_data, index_field) ==
    arange(processed_data[index_field][1] - 1, processed_data[index_field][2])

\* Mutant: the first call is given the output path too.
first_call_args_writes(d, frames) ==
    [raw_imaging_file_path |-> d.raw_imaging_file_paths[1],
     frame_indices |-> Some(frames[1]),
     fiber_photometry_field |-> d.fiber_photometry_fields[1],
     behavior_field |-> Some(d.behavior_fields[1]),
     index_field |-> d.index_fields[1],
     wl |-> d.excitation_wavelengths_in_nm[1],
     ttl_stream_name |-> d.ttl_stream_names[1],
     nwbfile |-> None,
     nwbfile_path |-> Some(d.nwbfile_path),
     stub_test |-> d.stub_test]

\* Arguments of the call for the first excitation wavelength.
first_call_args(d, frames) ==
    [raw_imaging_file_path |-> d.raw_imaging_file_paths[1],
     frame_indices |-> Some(frames[1]),
     fiber_photometry_field |-> d.fiber_photometry_fields[1],
     behavior_field |-> Some(d.behavior_fields[1]),
     index_field |-> d.index_fields[1],
     wl |-> d.excitation_wavelengths_in_nm[1],
     ttl_stream_name |-> d.ttl_stream_names[1],
     nwbfile |-> None,
     nwbfile_path |-> None,
     stub_test |-> d.stub_test]

\* Mutant: the second call is given the second behavior field.
second_call_args_with_behavior(d, frames, handle) ==
    [raw_imaging_file_path |-> d.raw_imaging_file_paths[2],
     frame_indices |-> Some(frames[2]),
     fiber_photometry_field |-> d.fiber_photometry_fields[2],
     behavior_field |-> Some(d.behavior_fields[2]),
     index_field |-> d.index_fields[2],
     wl |-> d.excitation_wavelengths_in_nm[2],
     ttl_stream_name |-> d.ttl_stream_names[2],
     nwbfile |-> handle,
     nwbfile_path |-> Some(d.nwbfile_path),
     stub_test |-> d.stub_test]

\* Arguments of the call for the second excitation wavelength: no
\* behavior_field, the first call's handle, and the path to write.
second_call_args(d, frames, handle) ==
    [raw_imaging_file_path |-> d.raw_imaging_file_paths[2],
     frame_indices |-> Some(frames[2]),
     fiber_photometry_field |-> d.fiber_photometry_fields[2],
     behavior_field |-> None,
     index_field |-> d.index_fields[2],
     wl |-> d.excitation_wavelengths_in_nm[2],
     ttl_stream_name |-> d.ttl_stream_names[2],
     nwbfile |-> handle,
     nwbfile_path |-> Some(d.nwbfile_path),
     stub_test |-> d.stub_test]

\* A dual call as it is entered.
DualCall(wls, index_fields, behavior_fields, path, stub) ==
    [state |-> "running",
     raw_imaging_file_paths |-> <<"green.cxd", "red.cxd">>,
     fiber_photometry_fields |-> <<"ACh", "DA">>,
     behavior_fields |-> behavior_fields,
     index_fields |-> index_fields,
     excitation_wavelengths_in_nm |-> wls,
     ttl_stream_names |-> <<"ttlIn1", "ttlIn2">>,
     nwbfile_path |-> path,
     stub_test |-> stub,
     frames |-> <<>>,
     created |-> 0]

\* Mutant: the loop catches the exception and goes on with the next group.
Raise_and_continue(err) ==
    /\ error' = err
    /\ pc' = IF InBatch THEN "group" ELSE "ended"
    /\ run' = IF InBatch THEN [run EXCEPT !.queue = Tail(@)] ELSE run

\* An exception leaves the dual call: it ends the batch call too, if any.
Raise(err) ==
    /\ error' = err
    /\ pc' = "ended"
    /\ run' = IF InBatch THEN [run EXCEPT !.status = "failed"] ELSE run

\* Lines 75-101: read the struct, derive both windows, assemble channel 1.
DualFirst ==
    /\ pc = "dual_first"
    /\ LET frames == <<dual_frame_indices(mat, dual.index_fields[1]),
                       dual_frame_indices(mat, dual.index_fields[2])>>
           a == first_call_args(dual, frames)
           r == single_wavelength_session_to_nwb(a, mat)
       IN  /\ last' = [channel |-> 1, args |-> a, pair |-> mat[a.index_field], res |-> r]
           /\ IF r.err # "none"
              THEN /\ Raise(r.err)
                   /\ dual' = [dual EXCEPT !.state = "raised", !.frames = frames]
                   /\ nwbfile' = None
              ELSE /\ dual' = [dual EXCEPT !.frames = frames,
                                  !.created = @ + (IF r.created THEN 1 ELSE 0)]
                   /\ nwbfile' = r.ret
                   /\ pc' = "dual_second"
                   /\ UNCHANGED <<error, run>>
    /\ UNCHANGED <<prev, cur, mat, files, reports, log, metadata>>

\* Lines 105-123: assemble channel 2 into the same handle and write the file.
DualSecond ==
    /\ pc = "dual_second"
    /\ LET a == second_call_args(dual, dual.frames, nwbfile)
           r == single_wavelength_session_to_nwb(a, mat)
       IN  /\ last' = [channel |-> 2, args |-> a, pair |-> mat[a.index_field], res |-> r]
           /\ IF r.err # "none"
              THEN /\ Raise(r.err)
                   /\ dual' = [dual EXCEPT !.state = "raised"]
                   /\ UNCHANGED <<nwbfile, files, log>>
              ELSE /\ dual' = [dual EXCEPT !.state = "returned",
                                  !.created = @ + (IF r.created THEN 1 ELSE 0)]
                   /\ nwbfile' = r.handle
                   /\ files' = IF r.written.none THEN files
                               ELSE WriteFile(files, r.written.val, NwbContent(r.handle.val))
                   /\ log' = IF r.written.none THEN log
                             ELSE [log EXCEPT !.writes = Append(@, r.written.val)]
                   /\ pc' = IF InBatch THEN "inspect" ELSE "ended"
                   /\ UNCHANGED <<error, run>>
    /\ UNCHANGED <<prev, cur, mat, reports, metadata>>

---------------------------------------------------------------------------
(* Direct calls of the two assemblers                                     *)

OutPath == <<"o","u","t",".nwb">>

\* Frame windows a caller of the single-wavelength assembler may supply.
SuppliedWindows == { <<0>>, <<1, 2>> }

\* A program calls single_wavelength_session_to_nwb once, with no handle.
DirectSingle ==
    /\ pc = "idle"
    /\ ~InBatch
    /\ \E p \in IndexPairs, index_field \in {"ACh_idx", "DA_idx"},
          wl \in Wavelengths, stub \in BOOLEAN,
          fi \in {None} \cup {Some(w) : w \in SuppliedWindows},
          bf \in {None, Some("behav_ACh")},
          path \in {None, Some(OutPath)} :
         LET pd == [f \in {"ACh_idx", "DA_idx"} |-> p]
             a == [raw_imaging_file_path |-> "green.cxd",
                   frame_indices |-> fi,
                   fiber_photometry_field |-> "ACh",
                   behavior_field |-> bf,
                   index_field |-> index_field,
                   wl |-> wl,
                   ttl_stream_name |-> "ttlIn1",
                   nwbfile |-> None,
                   nwbfile_path |-> path,
                   stub_test |-> stub]
             r == single_wavelength_session_to_nwb(a, pd)
         IN  /\ mat' = pd
             /\ last' = [channel |-> 0, args |-> a, pair |-> pd[index_field], res |-> r]
             /\ error' = r.err
             /\ nwbfile' = r.ret
             /\ files' = IF r.written.none THEN files
                         ELSE WriteFile(files, r.written.val, NwbContent(r.handle.val))
             /\ log' = IF r.written.none THEN EmptyLog
                       ELSE [EmptyLog EXCEPT !.writes = <<r.written.val>>]
    /\ dual' = NoDual
    /\ pc' = "ended"
    /\ UNCHANGED <<run, prev, cur, reports, metadata>>

\* A program calls dual_wavelength_session_to_nwb.
DirectDual ==
    /\ pc = "idle"
    /\ ~InBatch
    /\ \E pd \in [{"ACh_idx", "DA_idx"} -> IndexPairs],
          wl1 \in Wavelengths, wl2 \in Wavelengths, stub \in BOOLEAN :
         /\ mat' = pd
         /\ dual' = DualCall(<<wl1, wl2>>, <<"ACh_idx", "DA_idx">>,
                             <<"behav_ACh", "behav_DA">>, OutPath, stub)
    /\ pc' = "dual_first"
    /\ last' = NoCall
    /\ nwbfile' = None
    /\ error' = "none"
    /\ log' = EmptyLog
    /\ UNCHANGED <<run, prev, cur, files, reports, metadata>>

\* The process ends: what it held in memory is gone, the output folder stays.
\* A later process starts from there. prev remembers a batch call that ran
\* to completion with overwrite=False.
ProcessExit ==
    /\ pc = "ended"
    /\ pc' = "idle"
    /\ prev' = IF run.status = "done" /\ ~run.overwrite
               THEN [kept |-> TRUE, subject_ids |-> run.subject_ids,
                     stub_test |-> run.stub_test]
               ELSE NoPrev
    /\ run' = NoRun
    /\ cur' = NoGroup
    /\ dual' = NoDual
    /\ mat' = NoMat
    /\ last' = NoCall
    /\ nwbfile' = None
    /\ error' = "none"
    /\ log' = EmptyLog
    /\ UNCHANGED <<files, reports, metadata>>

NextAssembler == DirectSingle \/ DirectDual \/ DualFirst \/ DualSecond \/ ProcessExit

SpecAssembler == Init /\ [][NextAssembler]_vars

---------------------------------------------------------------------------
(* convert_all_dual_wavelength_sessions                                   *)

\* Mutant: the table is not filtered.
filtered_data_table_unfiltered(subject_ids) == Sessions

\* data_table[data_table["Mouse"].astype(str).isin(subject_ids)]
filtered_data_table(subject_ids) ==
    SelectSeq(Sessions, LAMBDA r : r.Mouse \in subject_ids)

\* The keys of filtered_data_table.groupby(["Mouse", "Experiment Directory"]),
\* in the order groupby yields them.
GroupKeys(table) ==
    SortKeys({ <<table[i].Mouse, table[i].ExpDir>> : i \in DOMAIN table })

\* table[column].values[0]: the group's first row in table order.
FirstRow(table, key) ==
    LET rows == SelectSeq(table, LAMBDA r : <<r.Mouse, r.ExpDir>> = key)
    IN  Head(rows)

\* _get_subject_metadata_from_dataframe: None stands for the LookupError.
subject_metadata(mouse) ==
    IF mouse \in Mice THEN Some([subject_id |-> mouse]) ELSE None

\* nwbfile_folder_path / f"{subject_id}_{exp_dir}.nwb", "stub-" in front in stub mode.
nwbfile_path(subject_id, exp_dir, stub_test) ==
    (IF stub_test THEN <<"s","t","u","b","-">> ELSE <<>>)
        \o subject_id \o <<"_">> \o exp_dir \o <<".nwb">>

\* nwbfile_folder_path / f"{subject_id}-{exp_dir}_nwbinspector_result.txt"
report_path(subject_id, exp_dir) ==
    subject_id \o <<"-">> \o exp_dir \o <<"_nwbinspector_result.txt">>

\* The dual call the loop makes for a group: stub_test is not among the
\* keyword arguments, so the callee's default (False) applies.
batch_dual_call(row, path, stub_test) ==
    DualCall(row.wl, row.idx, row.behav, path, FALSE)

\* format_messages(inspect_nwbfile(nwbfile_path), levels=["importance", "file_path"])
inspector_report(path, fs) == [file_path |-> path, inspected |-> fs[path]]

\* Mutant: the report is saved whether or not one exists.
saves_report_always(rpath, reps) == TRUE

\* Whether the loop saves the report: only when none exists at the path.
saves_report(rpath, reps) == rpath \notin DOMAIN reps

\* Mutant: the overwrite flag is read the wrong way round.
skips_group_flag_inverted(path, fs, overwrite) == path \in DOMAIN fs /\ overwrite

\* Mutant: a group is skipped only when its report exists too.
skips_group_needs_report(path, fs, overwrite) ==
    /\ path \in DOMAIN fs
    /\ ~overwrite
    /\ report_path(strip_hyphens(Head(run.queue)[1]), Head(run.queue)[2])
           \in DOMAIN reports

\* Whether the loop skips a group: its output file exists and overwrite is off.
skips_group(path, fs, overwrite) == path \in DOMAIN fs /\ ~overwrite

\* Lines 47-66: read the table, filter it, fail when nothing is left.
BatchStart ==
    /\ pc = "idle"
    /\ \E ids \in SUBSET SubjectPool, stub \in BOOLEAN, ow \in BOOLEAN :
         LET table == filtered_data_table(ids)
             args == [subject_ids |-> ids, stub_test |-> stub, overwrite |-> ow]
         IN  IF table = <<>>
             THEN /\ run' = [status |-> "failed", queue |-> <<>>] @@ args
                  /\ error' = "ValueError"
                  /\ pc' = "ended"
             ELSE /\ run' = [status |-> "running", queue |-> GroupKeys(table)] @@ args
                  /\ error' = "none"
                  /\ pc' = "group"
    /\ log' = EmptyLog
    /\ UNCHANGED <<prev, cur, dual, mat, last, nwbfile, files, reports, metadata>>

\* The group the loop takes next, with the names lines 69-87 derive for it.
NextGroup ==
    LET key == Head(run.queue)
        subject_id == strip_hyphens(key[1])
    IN  [key |-> key,
         row |-> FirstRow(filtered_data_table(run.subject_ids), key),
         subject_id |-> subject_id,
         nwbfile_path |-> nwbfile_path(subject_id, key[2], run.stub_test),
         report_path |-> report_path(subject_id, key[2])]

\* Line 69 raises: the subject is not in sheet "Mice".
GroupLookupFails ==
    /\ pc = "group" /\ run.queue # <<>>
    /\ subject_metadata(Head(run.queue)[1]).none
    /\ cur' = NextGroup
    /\ log' = [log EXCEPT !.lookups = @ + 1]
    /\ Raise("LookupError")
    /\ UNCHANGED <<prev, dual, mat, last, nwbfile, files, reports, metadata>>

\* Lines 69-90: the output file exists and overwrite is off.
GroupSkip ==
    /\ pc = "group" /\ run.queue # <<>>
    /\ ~subject_metadata(Head(run.queue)[1]).none
    /\ skips_group(NextGroup.nwbfile_path, files, run.overwrite)
    /\ cur' = NextGroup
    /\ log' = [log EXCEPT !.lookups = @ + 1, !.skipped = @ + 1]
    /\ run' = [run EXCEPT !.queue = Tail(@)]
    /\ UNCHANGED <<pc, prev, dual, mat, last, nwbfile, files, reports, error, metadata>>

\* Lines 69-108: the loop enters dual_wavelength_session_to_nwb.
GroupConvert ==
    /\ pc = "group" /\ run.queue # <<>>
    /\ ~subject_metadata(Head(run.queue)[1]).none
    /\ ~skips_group(NextGroup.nwbfile_path, files, run.overwrite)
    /\ cur' = NextGroup
    /\ log' = [log EXCEPT !.lookups = @ + 1, !.conversions = @ + 1]
    /\ dual' = batch_dual_call(NextGroup.row, NextGroup.nwbfile_path, run.stub_test)
    /\ mat' = ProcessedData(NextGroup.row)
    /\ last' = NoCall
    /\ nwbfile' = None
    /\ pc' = "dual_first"
    /\ UNCHANGED <<run, prev, files, reports, error, metadata>>

\* Lines 110-121: inspect the written file, save the report if there is none.
Inspect ==
    /\ pc = "inspect"
    /\ IF saves_report(cur.report_path, reports)
       THEN /\ reports' = WriteFile(reports, cur.report_path,
                                    inspector_report(cur.nwbfile_path, files))
            /\ log' = [log EXCEPT !.reports = Append(@, cur.report_path)]
       ELSE UNCHANGED <<reports, log>>
    /\ run' = [run EXCEPT !.queue = Tail(@)]
    /\ pc' = "group"
    /\ UNCHANGED <<prev, cur, dual, mat, last, nwbfile, files, error, metadata>>

\* The loop is over: the call returns.
BatchDone ==
    /\ pc = "group" /\ run.queue = <<>>
    /\ run' = [run EXCEPT !.status = "done"]
    /\ pc' = "ended"
    /\ UNCHANGED <<prev, cur, dual, mat, last, nwbfile, files, reports, error, log, metadata>>

\* The process is terminated from outside while the loop runs (there is
\* no cancellation point): what it held in memory is gone, whatever is on
\* disk stays as it is.
Interrupt ==
    /\ InBatch
    /\ pc \in {"group", "dual_first", "dual_second", "inspect"}
    /\ pc' = "idle"
    /\ prev' = NoPrev
    /\ run' = NoRun
    /\ cur' = NoGroup
    /\ dual' = NoDual
    /\ mat' = NoMat
    /\ last' = NoCall
    /\ nwbfile' = None
    /\ error' = "none"
    /\ log' = EmptyLog
    /\ UNCHANGED <<files, reports, metadata>>

Next ==
    \/ BatchStart
    \/ GroupLookupFails
    \/ GroupSkip
    \/ GroupConvert
    \/ DualFirst
    \/ DualSecond
    \/ Inspect
    \/ BatchDone
    \/ Interrupt
    \/ ProcessExit

Spec == Init /\ [][Next]_vars

---------------------------------------------------------------------------
(* Metadata assembly of single_wavelength_session_to_nwb                  *)
(* A metadata structure is a tree: a leaf carries the index of the source *)
(* it came from (1 stream-derived, 2 general yaml, 3 subject metadata,    *)
(* 4 ophys yaml, 5 fiber photometry yaml as updated, 6 the per-wavelength *)
(* ophys update) and the tzinfo of its datetime; a mapping carries items. *)

Leaf(i, tz) == [leaf |-> TRUE, src |-> i, tzinfo |-> tz]
Mapping(f) == [leaf |-> FALSE, items |-> f]

session_start_time == <<"NWBFile", "session_start_time">>
session_id == <<"NWBFile", "session_id">>
date_of_birth == <<"Subject", "date_of_birth">>
sex == <<"Subject", "sex">>
one_photon_series == <<"Ophys", "OnePhotonSeries", "name">>
fiber_photometry_series == <<"Ophys", "FiberPhotometry", "name">>

\* The leaf keys of the modelled metadata structures.
Paths ==
    { session_start_time, session_id, date_of_birth, sex,
      one_photon_series, fiber_photometry_series }

DatetimePaths == { session_start_time, date_of_birth }

IsPrefix(a, b) == Len(a) <= Len(b) /\ SubSeq(b, 1, Len(a)) = a

\* The dictionary of source i that defines exactly the leaf keys P; the
\* datetimes a source holds are naive.
RECURSIVE TreeOf(_, _, _)
TreeOf(P, prefix, i) ==
    IF prefix \in P
    THEN Leaf(i, IF prefix \in DatetimePaths THEN "naive" ELSE "n/a")
    ELSE Mapping([k \in { q[Len(prefix) + 1] : q \in { r \in P : IsPrefix(prefix, r) } }
                    |-> TreeOf(P, Append(prefix, k), i)])

\* Does the dictionary define the leaf key p, and with which value.
RECURSIVE Has(_, _)
Has(t, p) ==
    IF p = <<>> THEN t.leaf
    ELSE /\ ~t.leaf
         /\ Head(p) \in DOMAIN t.items
         /\ Has(t.items[Head(p)], Tail(p))

RECURSIVE Lookup(_, _)
Lookup(t, p) == IF p = <<>> THEN t ELSE Lookup(t.items[Head(p)], Tail(p))

\* d[p[1]]...[p[n-1]].update(p[n] = v)
RECURSIVE SetLeaf(_, _, _)
SetLeaf(t, p, v) ==
    IF p = <<>> THEN v
    ELSE Mapping([k \in DOMAIN t.items \cup {Head(p)} |->
                    IF k = Head(p)
                    THEN SetLeaf(IF k \in DOMAIN t.items THEN t.items[k] ELSE Mapping(<<>>),
                                 Tail(p), v)
                    ELSE t.items[k]])

\* neuroconv's dict_deep_update on dictionaries of scalars: a mapping of u
\* is merged into the mapping of d, any other value of u replaces d's.
RECURSIVE dict_deep_update(_, _)
dict_deep_update(d, u) ==
    Mapping([k \in DOMAIN d.items \cup DOMAIN u.items |->
                IF k \notin DOMAIN u.items THEN d.items[k]
                ELSE IF ~u.items[k].leaf
                     THEN dict_deep_update(IF k \in DOMAIN d.items THEN d.items[k]
                                           ELSE Mapping(<<>>),
                                           u.items[k])
                     ELSE u.items[k]])

\* datetime.replace(tzinfo = tz.gettz("US/Eastern"))
localize(v) == [v EXCEPT !.tzinfo = "US/Eastern"]

\* What the sources may define.
StreamChoices == SUBSET { one_photon_series, fiber_photometry_series }
GeneralChoices == SUBSET { session_start_time, session_id, date_of_birth, sex }
SubjectChoices == SUBSET { session_id, date_of_birth, sex }
OphysChoices == SUBSET { date_of_birth, sex, one_photon_series, fiber_photometry_series }
FiberPhotometryChoices == SUBSET { sex, one_photon_series }

\* converter.get_metadata(): the streams always give the session start.
get_metadata(P) == TreeOf(P \cup {session_start_time}, <<>>, 1)

\* The session start is localized and the session id is set.
with_session(md) ==
    SetLeaf(SetLeaf(md, session_start_time, localize(Lookup(md, session_start_time))),
            session_id, Leaf(1, "n/a"))

\* Mutant: the general yaml is the base and what is there already wins.
merge_general_keeping_earlier(md, editable_metadata) ==
    dict_deep_update(editable_metadata, md)

merge_general(md, editable_metadata) == dict_deep_update(md, editable_metadata)

\* The subject metadata, when supplied, is merged and the date of birth of
\* the result is localized; a result without one raises KeyError.
merge_subject(md, subject) ==
    IF subject.none THEN [err |-> "none", metadata |-> md]
    ELSE LET m == dict_deep_update(md, subject.val)
         IN  IF ~Has(m, date_of_birth)
             THEN [err |-> "KeyError", metadata |-> m]
             ELSE [err |-> "none",
                   metadata |-> SetLeaf(m, date_of_birth,
                                        localize(Lookup(m, date_of_birth)))]

merge_ophys(md, ophys_metadata) == dict_deep_update(md, ophys_metadata)

\* The fiber photometry yaml with the response series of this wavelength.
update_fiber_photometry_metadata(fiber_photometry_metadata) ==
    SetLeaf(fiber_photometry_metadata, fiber_photometry_series, Leaf(5, "n/a"))

merge_fiber_photometry(md, fiber_photometry_metadata) ==
    dict_deep_update(md, update_fiber_photometry_metadata(fiber_photometry_metadata))

\* What the per-wavelength update defines: the name of the photon series.
ophys_overrides == TreeOf({one_photon_series}, <<>>, 6)

update_ophys_metadata(md) == dict_deep_update(md, ophys_overrides)

\* One step of the assembly: the source is recorded as it was read.
Assembled(stage, tree, source) ==
    [stage |-> stage, tree |-> tree, err |-> "none",
     supplied |-> IF stage = "subject" THEN TRUE ELSE
                  IF stage \in {"stream", "general"} THEN FALSE ELSE metadata.supplied,
     sources |-> IF stage = "stream" THEN <<source>>
                 ELSE Append(metadata.sources, source)]

GetMetadata ==
    /\ pc = "idle" /\ metadata.stage = "none"
    /\ \E P \in StreamChoices :
          metadata' = Assembled("stream", with_session(get_metadata(P)),
                                TreeOf(P \cup {session_start_time, session_id}, <<>>, 1))
    /\ UNCHANGED <<pc, run, prev, cur, dual, mat, last, nwbfile, files, reports, error, log>>

MergeGeneral ==
    /\ metadata.stage = "stream"
    /\ \E P \in GeneralChoices :
          LET editable_metadata == TreeOf(P, <<>>, 2)
          IN  metadata' = Assembled("general",
                                    merge_general(metadata.tree, editable_metadata),
                                    editable_metadata)
    /\ UNCHANGED <<pc, run, prev, cur, dual, mat, last, nwbfile, files, reports, error, log>>

MergeSubject ==
    /\ metadata.stage = "general"
    /\ \E subject \in {None} \cup { Some(TreeOf(P, <<>>, 3)) : P \in SubjectChoices } :
          LET res == merge_subject(metadata.tree, subject)
              source == IF subject.none THEN Mapping(<<>>) ELSE subject.val
              m == Assembled("subject", res.metadata, source)
          IN  metadata' = [m EXCEPT !.supplied = ~subject.none,
                                    !.err = res.err,
                                    !.stage = IF res.err = "none" THEN "subject" ELSE "raised"]
    /\ UNCHANGED <<pc, run, prev, cur, dual, mat, last, nwbfile, files, reports, error, log>>

MergeOphys ==
    /\ metadata.stage = "subject"
    /\ \E P \in OphysChoices :
          LET ophys_metadata == TreeOf(P, <<>>, 4)
          IN  metadata' = Assembled("ophys", merge_ophys(metadata.tree, ophys_metadata),
                                    ophys_metadata)
    /\ UNCHANGED <<pc, run, prev, cur, dual, mat, last, nwbfile, files, reports, error, log>>

MergeFiberPhotometry ==
    /\ metadata.stage = "ophys"
    /\ \E P \in FiberPhotometryChoices :
          LET fiber_photometry_metadata == TreeOf(P, <<>>, 5)
          IN  metadata' = Assembled("fiber_photometry",
                                    merge_fiber_photometry(metadata.tree,
                                                           fiber_photometry_metadata),
                                    update_fiber_photometry_metadata(fiber_photometry_metadata))
    /\ UNCHANGED <<pc, run, prev, cur, dual, mat, last, nwbfile, files, reports, error, log>>

UpdateOphys ==
    /\ metadata.stage = "fiber_photometry"
    /\ metadata' = Assembled("final", update_ophys_metadata(metadata.tree), ophys_overrides)
    /\ UNCHANGED <<pc, run, prev, cur, dual, mat, last, nwbfile, files, reports, error, log>>

NextMetadata ==
    \/ GetMetadata
    \/ MergeGeneral
    \/ MergeSubject
    \/ MergeOphys
    \/ MergeFiberPhotometry
    \/ UpdateOphys

SpecMetadata == Init /\ [][NextMetadata]_vars

---------------------------------------------------------------------------
(* Properties                                                             *)

\* The call in run repeats the call in prev: same subjects, same stub flag,
\* overwrite off in both, and prev ran to completion.
RepeatsPrev ==
    /\ run.status # "none"
    /\ prev.kept
    /\ ~run.overwrite
    /\ run.subject_ids = prev.subject_ids
    /\ run.stub_test = prev.stub_test

\* C1: a batch call with overwrite=False that repeats a completed call with
\* overwrite=False on the same inputs does nothing: it invokes no conversion,
\* writes no output file and saves no report, for any of its groups.
C1_SecondRunIsNoOp ==
    RepeatsPrev =>
        /\ run.status # "failed"
        /\ log.conversions = 0
        /\ log.writes = <<>>
        /\ log.reports = <<>>
        /\ log.skipped = log.lookups

\* C1 witness: the repeated call is over and has skipped two groups.
C1_Witness ==
    /\ RepeatsPrev
    /\ run.status = "done"
    /\ log.skipped = 2

HasStubPrefix(path) ==
    Len(path) > 5 /\ SubSeq(path, 1, 5) = <<"s","t","u","b","-">>

\* C2: in a batch call with the stub flag set, every stream of both channels
\* is converted with stub_test = True, and the file written to the stub-
\* path holds only stub-converted streams.
C2_StubReachesEveryStream ==
    (run.status = "running" /\ run.stub_test) =>
        /\ last.channel # -1 =>
              \A s \in DOMAIN last.res.conversion_options :
                  last.res.conversion_options[s].stub_test
        /\ pc = "inspect" =>
              /\ HasStubPrefix(cur.nwbfile_path)
              /\ \A i \in DOMAIN files[cur.nwbfile_path] :
                    files[cur.nwbfile_path][i].stub = {TRUE}

\* The requested subjects are disjoint from the Mouse column.
DisjointRequest ==
    /\ run.status # "none"
    /\ \A i \in DOMAIN Sessions : Sessions[i].Mouse \notin run.subject_ids

\* What a batch call that failed before its loop leaves behind.
FailedBeforeLoop(err) ==
    /\ run.status = "failed"
    /\ pc = "ended"
    /\ error = err
    /\ log = EmptyLog
    /\ cur = NoGroup
    /\ dual = NoDual

\* C3 (as claimed): a request disjoint from the Mouse column fails with
\* ConfigurationError before any lookup, conversion, file or report write.
C3_FailsWithConfigurationError ==
    DisjointRequest => FailedBeforeLoop("ConfigurationError")

\* C3 (amended): a request disjoint from the Mouse column fails with
\* ValueError before any lookup, conversion, file or report write.
C3_FailsWithValueError ==
    DisjointRequest => FailedBeforeLoop("ValueError")

\* C3 witness: a request for a subject of no sheet has failed, with output
\* of an earlier call in the folder.
C3_Witness ==
    /\ DisjointRequest
    /\ run.subject_ids = {<<"Z">>}
    /\ error = "ValueError"
    /\ DOMAIN files # {}

\* C4: an existing report is never changed or removed, and a report is saved
\* only by the inspector step, at a path that holds none.
C4_ReportNeverOverwritten ==
    [][ /\ \A p \in DOMAIN reports :
              p \in DOMAIN reports' /\ reports'[p] = reports[p]
        /\ reports' # reports =>
              /\ pc = "inspect"
              /\ cur.report_path \notin DOMAIN reports
              /\ DOMAIN reports' = DOMAIN reports \cup {cur.report_path} ]_vars

\* C4 witness: the inspector step has just run on a freshly written file
\* whose report would differ from the one on disk, and saved nothing.
C4_Witness ==
    /\ pc = "group"
    /\ log.conversions = 1 /\ log.skipped = 0
    /\ log.writes = <<cur.nwbfile_path>>
    /\ log.reports = <<>>
    /\ cur.report_path \in DOMAIN reports
    /\ reports[cur.report_path] # inspector_report(cur.nwbfile_path, files)

LookupErrors == {"LookupError", "KeyError", "IndexError"}

WavelengthKeys == DOMAIN excitation_wavelength_to_photon_series_name

DualOver == dual.state \in {"raised", "returned"}

\* C5 (as claimed): a dual call given a wavelength outside the four keys,
\* for either channel, fails with a lookup error before any handle has been
\* created, and writes no file.
C5_FailsBeforeAnyHandle ==
    (DualOver /\ \E c \in {1, 2} : dual.excitation_wavelengths_in_nm[c] \notin WavelengthKeys) =>
        /\ dual.state = "raised"
        /\ error \in LookupErrors
        /\ dual.created = 0
        /\ log.writes = <<>>

\* C5 (amended): such a call fails with a lookup error and writes no file;
\* no handle has been created when channel 1's wavelength is the unknown
\* one, and exactly the channel-1 handle has been created when only
\* channel 2's is.
C5_FailsWithoutWriting ==
    (DualOver /\ \E c \in {1, 2} : dual.excitation_wavelengths_in_nm[c] \notin WavelengthKeys) =>
        /\ dual.state = "raised"
        /\ error \in LookupErrors
        /\ log.writes = <<>>
        /\ IF dual.excitation_wavelengths_in_nm[1] \notin WavelengthKeys
           THEN dual.created = 0 /\ nwbfile = None /\ last.channel = 1
           ELSE dual.created = 1 /\ last.channel = 2 /\ ~last.res.created
                   /\ ~last.res.extended /\ Len(nwbfile.val) = 1

\* C5 witness: channel 2's wavelength is unknown, the call has failed
\* after channel 1's handle was created.
C5_Witness ==
    /\ dual.state = "raised"
    /\ dual.excitation_wavelengths_in_nm = <<470, 600>>
    /\ dual.created = 1
    /\ error = "KeyError"

\* C6: within one batch call no output path is written twice.
C6_EachPathWrittenOnce ==
    run.status # "none" =>
        \A i, j \in DOMAIN log.writes : i # j => log.writes[i] # log.writes[j]

\* w is the zero-based half-open window [s-1, e) of the one-based pair p = [s, e].
IsWindowOf(w, p) ==
    /\ Len(w) = p[2] - p[1] + 1
    /\ w[1] = p[1] - 1
    /\ w[Len(w)] = p[2] - 1
    /\ \A i \in 1..(Len(w) - 1) : w[i + 1] = w[i] + 1

\* C7: for an index pair [s, e] with 1 <= s <= e, the window either
\* assembler derives starts at s-1, ends at e-1 and has e-s+1 elements, and
\* within a dual call each channel's window is the same in both assemblers.
C7_FrameWindow ==
    /\ last.channel # -1 =>
          (last.pair[1] <= last.pair[2] =>
              IsWindowOf(last.res.source_data["Imaging"].frame_indices, last.pair))
    /\ (dual.state # "none" /\ dual.frames # <<>>) =>
          \A c \in {1, 2} :
              mat[dual.index_fields[c]][1] <= mat[dual.index_fields[c]][2] =>
                  IsWindowOf(dual.frames[c], mat[dual.index_fields[c]])
    /\ last.channel \in {1, 2} =>
          last.res.source_data["Imaging"].frame_indices = dual.frames[last.channel]

\* C7 witness: a dual call has assembled channel 2 from the pair [1, 2],
\* with channel 1 read from the pair [2, 2].
C7_Witness ==
    /\ last.channel = 2
    /\ last.pair = <<1, 2>>
    /\ mat[dual.index_fields[1]] = <<2, 2>>
    /\ dual.frames = << <<1>>, <<0, 1>> >>

FourStreams == {"Imaging", "FiberPhotometry", "Segmentation", "Behavior"}
ThreeStreams == {"Imaging", "FiberPhotometry", "Segmentation"}

\* C8: in a dual call, channel 1 is assembled with a behavior field and the
\* four streams, channel 2 with no behavior field and the three streams
\* without Behavior, in the source data and in the conversion options.
C8_BehaviorOnChannelOneOnly ==
    /\ last.channel = 1 =>
          /\ ~last.args.behavior_field.none
          /\ DOMAIN last.res.source_data = FourStreams
          /\ DOMAIN last.res.conversion_options = FourStreams
    /\ last.channel = 2 =>
          /\ last.args.behavior_field.none
          /\ DOMAIN last.res.source_data = ThreeStreams
          /\ DOMAIN last.res.conversion_options = ThreeStreams

\* C8 witness: a dual call has returned with a handle of two channels, four
\* streams in the first and three in the second.
C8_Witness ==
    /\ dual.state = "returned"
    /\ last.channel = 2
    /\ Len(nwbfile.val) = 2
    /\ DOMAIN nwbfile.val[1].source_data = FourStreams
    /\ DOMAIN nwbfile.val[2].source_data = ThreeStreams

\* C9: the suffix is a lookup on exactly four keys (470 Green, 405 and 415
\* GreenIsosbestic, 570 Red), no other wavelength has one, and both series
\* names of the channel carry that suffix.
C9_SuffixLookup ==
    last.channel # -1 =>
        LET wl == last.args.wl
            r == last.res
        IN  /\ wl = 470 => r.suffix = Some("Green")
            /\ wl \in {405, 415} => r.suffix = Some("GreenIsosbestic")
            /\ wl = 570 => r.suffix = Some("Red")
            /\ wl \notin {470, 405, 415, 570} => r.suffix = None /\ r.err = "KeyError"
            /\ r.err = "none" =>
                  LET e == r.handle.val[Len(r.handle.val)]
                  IN  /\ r.suffix.val \in {"Green", "GreenIsosbestic", "Red"}
                      /\ e.fiber_photometry_response_series_name =
                             <<"FiberPhotometryResponseSeries", r.suffix.val>>
                      /\ e.one_photon_series_name = <<"OnePhotonSeries", r.suffix.val>>

\* C9 witness: a call with wavelength 415 has returned.
C9_Witness ==
    /\ last.channel = 0
    /\ last.args.wl = 415
    /\ last.res.err = "none"
    /\ last.res.suffix = Some("GreenIsosbestic")

\* C10: the Imaging stream gets the caller's frame window when one was
\* supplied, and the window derived from the index field otherwise.
C10_SuppliedWindowIsUsed ==
    last.channel # -1 =>
        last.res.source_data["Imaging"].frame_indices =
            IF last.args.frame_indices.none
            THEN arange(last.pair[1] - 1, last.pair[2])
            ELSE last.args.frame_indices.val

\* C11: in a dual call the first call creates the handle and writes nothing;
\* the second call extends that handle, creates none, and writes it to the
\* output path. The file is written once, with both channels in it.
C11_CreateExtendFinalize ==
    /\ pc = "dual_second" =>
          /\ last.channel = 1
          /\ last.res.created /\ ~last.res.extended
          /\ last.res.written.none
          /\ nwbfile = last.res.handle /\ Len(nwbfile.val) = 1
          /\ dual.created = 1
          /\ log.writes = <<>>
    /\ (last.channel = 2 /\ last.res.err = "none") =>
          /\ ~last.res.created /\ last.res.extended
          /\ last.args.nwbfile = Some(SubSeq(last.res.handle.val, 1, 1))
          /\ Len(last.res.handle.val) = 2
          /\ DOMAIN last.res.handle.val[1].source_data = FourStreams
          /\ last.res.written = Some(dual.nwbfile_path)
          /\ dual.created = 1
          /\ log.writes = <<dual.nwbfile_path>>
          /\ files[dual.nwbfile_path] = NwbContent(last.res.handle.val)
    /\ (dual.state = "running" /\ pc = "dual_first") => log.writes = <<>>

\* C11 witness: a dual call has returned; its file holds both channels.
C11_Witness ==
    /\ dual.state = "returned"
    /\ dual.created = 1
    /\ log.writes = <<OutPath>>
    /\ Len(files[OutPath]) = 2
    /\ files[OutPath][1].series # files[OutPath][2].series

\* The loop is about to take a group whose subject is in sheet "Mice".
AtGroup ==
    /\ InBatch
    /\ pc = "group"
    /\ run.queue # <<>>
    /\ ~subject_metadata(Head(run.queue)[1]).none

\* C12 (as claimed): in a call with overwrite=False, a session that has an
\* output file from before the call and no report gets no report.
C12_ReportNeverCreated ==
    [][ ( /\ InBatch /\ ~run.overwrite
          /\ pc = "inspect"
          /\ cur.report_path \notin DOMAIN reports
          /\ \E b \in BOOLEAN :
                LET f == nwbfile_path(cur.subject_id, cur.key[2], b)
                IN  /\ f \in DOMAIN files
                    /\ \A i \in DOMAIN log.writes : log.writes[i] # f )
        => reports' = reports ]_vars

\* C12 (amended): in a call with overwrite=False, a group whose output file
\* for the call's stub setting exists and whose report does not is skipped:
\* no conversion, no inspector step, no file or report written.
C12_SkipLooksOnlyAtFile ==
    [][ ( /\ AtGroup /\ ~run.overwrite
          /\ NextGroup.nwbfile_path \in DOMAIN files
          /\ NextGroup.report_path \notin DOMAIN reports )
        => /\ reports' = reports
           /\ files' = files
           /\ log'.conversions = log.conversions
           /\ pc' \in {"group", "idle"}
           /\ pc' = "group" =>
                 /\ run'.queue = Tail(run.queue)
                 /\ log'.skipped = log.skipped + 1 ]_vars

\* C12 witness: a call with overwrite=False has just skipped a group whose
\* output file exists and whose report does not.
C12_Witness ==
    /\ InBatch /\ ~run.overwrite
    /\ pc = "group"
    /\ log.skipped = 1 /\ log.conversions = 0
    /\ cur.key # <<>>
    /\ cur.nwbfile_path \in DOMAIN files
    /\ cur.report_path \notin DOMAIN reports

\* The errors a group's subject lookup or conversion raises.
GroupErrors == {"LookupError", "KeyError"}

\* C13: an error of one group's subject lookup or conversion ends the batch
\* call. The failing group is the last one touched: no later group is looked
\* up, converted or inspected; the failing group wrote no file and got no
\* inspector step; what earlier groups wrote is still there, and neither
\* the failing step nor anything after it changes a file or a report.
C13_FailureEndsBatch ==
    /\ [] ( (run.status # "none" /\ error \in GroupErrors) =>
              /\ run.status = "failed"
              /\ pc = "ended"
              /\ run.queue # <<>> /\ Head(run.queue) = cur.key
              /\ log.lookups = log.skipped + log.conversions
                                  + (IF error = "LookupError" THEN 1 ELSE 0)
              /\ Len(log.writes) = log.conversions
                                      - (IF error = "KeyError" THEN 1 ELSE 0)
              /\ Len(log.reports) <= Len(log.writes)
              /\ \A i \in DOMAIN log.writes : log.writes[i] \in DOMAIN files
              /\ \A i \in DOMAIN log.reports : log.reports[i] \in DOMAIN reports )
    /\ [][ /\ (InBatch /\ error' \in GroupErrors) =>
                 files' = files /\ reports' = reports
           /\ run.status = "failed" =>
                 files' = files /\ reports' = reports /\ pc' = "idle" ]_vars

\* C13 witness: the second of three groups has failed in its conversion,
\* after the first was converted and reported; the third is untouched.
C13_Witness ==
    /\ run.status = "failed"
    /\ error = "KeyError"
    /\ Len(run.queue) = 2
    /\ Len(log.writes) = 1 /\ Len(log.reports) = 1
    /\ log.conversions = 2

\* The sources read so far that define the leaf key p.
Defining(p) == { i \in 1..Len(metadata.sources) : Has(metadata.sources[i], p) }

LastDefining(p) == CHOOSE m \in Defining(p) : \A i \in Defining(p) : i <= m

\* The metadata structure is being or has been assembled without an error.
Assembling == metadata.stage \notin {"none", "raised"}

\* The leaves whose datetime the assembly localizes: the session start the
\* streams gave, and the date of birth present when a subject is merged.
Localized(p) ==
    \/ p = session_start_time /\ LastDefining(p) = 1
    \/ p = date_of_birth /\ metadata.supplied /\ LastDefining(p) <= 3

====
